---- MODULE Spec2Model ----
(***************************************************************************)
(* A model of the algebraic reconciler: values, nodes, commands, command   *)
(* sequences, the canonicality and refluency checks, the greedy merger and *)
(* the enumeration of all mergers by get_any_merger / get_all_mergers.     *)
(*                                                                         *)
(* A Value is a record [type_, contents]; file contents and path names are *)
(* naturals standing for strings in their string order ("" is 0).  A Node  *)
(* is its path (a Session keeps one Node object per path, so flags written *)
(* on a node are kept in a function of the path).  A Command is a record   *)
(* [node, before, after].  A command sequence is a sequence of commands;   *)
(* the up pointers of a sequence are a sequence of positions, 0 for None.  *)
(***************************************************************************)
EXTENDS Integers, Sequences, FiniteSets, TLC

\* ------------------------------------------------------------------ bounds
MaxDepth == 3
MaxContents == 1
MaxCmds == 3
MaxCalls == 4
MaxSeqLen == 2

\* ------------------------------------------------------------------- Value
T_EMPTY == 100
T_FILE == 101
T_DIR == 102

Value(t, c) == [type_ |-> t, contents |-> c]

is_empty(v) == v.type_ = T_EMPTY
is_file(v) == v.type_ = T_FILE
is_dir(v) == v.type_ = T_DIR
type_less(v, w) == v.type_ < w.type_
type_greater(v, w) == v.type_ > w.type_
value_equals(v, w) == v.type_ = w.type_ /\ v.contents = w.contents

\* -------------------------------------------------------------------- Node
RECURSIVE path_less(_, _)
path_less(p, q) ==
    IF p = <<>> THEN q # <<>>
    ELSE IF q = <<>> THEN FALSE
    ELSE IF Head(p) # Head(q) THEN Head(p) < Head(q)
    ELSE path_less(Tail(p), Tail(q))

node_comp(p, q) == IF p = q THEN 0 ELSE IF path_less(p, q) THEN -1 ELSE 1

node_equals(p, q) == node_comp(p, q) = 0

is_ancestor_of(p, q) ==
    IF Len(p) >= Len(q) THEN FALSE ELSE p = SubSeq(q, 1, Len(p))

is_descendant_of(p, q) == is_ancestor_of(q, p)

is_parent_of(p, q) == p = SubSeq(q, 1, Len(q) - 1)

\* ----------------------------------------------------------------- Command
Command(n, b, a) == [node |-> n, before |-> b, after |-> a]

command_equals(c, d) ==
    node_equals(c.node, d.node) /\ value_equals(c.before, d.before)
        /\ value_equals(c.after, d.after)

is_null(c) == value_equals(c.before, c.after)
is_constructor(c) == type_greater(c.after, c.before)
is_destructor(c) == type_less(c.after, c.before)

is_constructor_pair_with_next(c, other) ==
    is_constructor(c) /\ is_dir(c.after) /\ is_constructor(other)
        /\ is_empty(other.before) /\ is_parent_of(c.node, other.node)

is_destructor_pair_with_next(c, other) ==
    is_destructor(c) /\ is_empty(c.after) /\ is_destructor(other)
        /\ is_dir(other.before) /\ is_parent_of(other.node, c.node)

\* ---------------------------------------------------------------- heapsort
\* The three comparison functions handed to heap_sort.  An item is a record
\* [c |-> command, order |-> position].  A comparison either returns r or
\* raises: Value has no comp method, so the comparison of order_by_node_value
\* raises AttributeError as soon as it is asked about two commands on one node.
NoRaise(r) == [raised |-> FALSE, r |-> r]
Raise == [raised |-> TRUE, r |-> 0]

compare_by_node_unstable(a, b) ==
    NoRaise(node_comp(b.c.node, a.c.node))

compare_by_node(a, b) ==
    LET r == node_comp(b.c.node, a.c.node)
    IN  IF r # 0 THEN NoRaise(r)
        ELSE IF a.order = b.order THEN NoRaise(0)
        ELSE IF a.order < b.order THEN NoRaise(1)
        ELSE NoRaise(-1)

compare_by_node_value(a, b) ==
    LET r == node_comp(b.c.node, a.c.node)
    IN  IF r # 0 THEN NoRaise(r) ELSE Raise

\* The comparison of Session.__init__: on the nodes only.
compare_by_path(a, b) == NoRaise(node_comp(b.c.node, a.c.node))

compare(kind, a, b) ==
    IF kind = "node" THEN compare_by_node(a, b)
    ELSE IF kind = "path" THEN compare_by_path(a, b)
    ELSE compare_by_node_value(a, b)

swap(arr, i, j) == [arr EXCEPT ![i] = arr[j], ![j] = arr[i]]

\* heapify on positions counted from 0, as in the source; st is
\* [arr, raised], and a raised comparison abandons the sort.
\* The outcome c of comparing arr[largest] with arr[child]: [raised, largest].
larger_after(c, largest, child) ==
    [raised |-> c.raised,
     largest |-> IF ~c.raised /\ c.r = 1 THEN child ELSE largest]

\* largest after looking at a child, when the child is inside the heap.
larger_of(arr, length, kind, largest, child) ==
    IF child < length
    THEN larger_after(compare(kind, arr[largest + 1], arr[child + 1]), largest, child)
    ELSE [raised |-> FALSE, largest |-> largest]

\* The right child is looked at unless the comparison with the left one raised.
larger_of_right(arr, length, kind, root, l1) ==
    IF l1.raised THEN l1 ELSE larger_of(arr, length, kind, l1.largest, 2 * root + 2)

RECURSIVE heapify(_, _, _, _)
\* If the root is not the largest, swap with the largest and continue.
heapify_swap(st, length, root, kind, l2) ==
    IF l2.raised THEN [arr |-> st.arr, raised |-> TRUE]
    ELSE IF l2.largest # root
         THEN heapify([arr |-> swap(st.arr, l2.largest + 1, root + 1), raised |-> FALSE],
                      length, l2.largest, kind)
         ELSE st

heapify(st, length, root, kind) ==
    IF st.raised THEN st
    ELSE heapify_swap(st, length, root, kind,
                      larger_of_right(st.arr, length, kind, root,
                                      larger_of(st.arr, length, kind, root, 2 * root + 1)))

RECURSIVE build_heap(_, _, _, _)
build_heap(st, n, i, kind) ==
    IF i < 0 THEN st ELSE build_heap(heapify(st, n, i, kind), n, i - 1, kind)

RECURSIVE extract_all(_, _, _)
extract_all(st, i, kind) ==
    IF i < 1 \/ st.raised THEN st
    ELSE extract_all(heapify([arr |-> swap(st.arr, i + 1, 1), raised |-> FALSE], i, 0, kind),
                     i - 1, kind)

heap_sort(arr, kind) ==
    extract_all(build_heap([arr |-> arr, raised |-> FALSE], Len(arr), Len(arr) \div 2, kind),
                Len(arr) - 1, kind)

\* --------------------------------------------------------------- CSequence
with_order(seq) == [i \in 1..Len(seq) |-> [c |-> seq[i], order |-> i - 1]]
without_order(arr) == [i \in 1..Len(arr) |-> arr[i].c]

order_by_node_unsorted(seq) == seq

order_by_node(seq) == without_order(heap_sort(with_order(seq), "node").arr)

\* [raised, seq]
sorted_or_raised(st) ==
    [raised |-> st.raised, seq |-> IF st.raised THEN <<>> ELSE without_order(st.arr)]

order_by_node_value(seq) == sorted_or_raised(heap_sort(with_order(seq), "node_value"))

\* find_up that takes one step along the up pointers and stops there.
find_up_one_step(seq, ups, j, i) ==
    IF j = 0 \/ is_ancestor_of(seq[j].node, seq[i].node) THEN j ELSE ups[j]

\* From the previous command j, follow the up pointers until a command on an
\* ancestor of the node of command i, or None (0).
RECURSIVE find_up(_, _, _, _)
find_up(seq, ups, j, i) ==
    IF j = 0 \/ is_ancestor_of(seq[j].node, seq[i].node) THEN j
    ELSE find_up(seq, ups, ups[j], i)

RECURSIVE add_up_from(_, _, _)
add_up_from(seq, ups, i) ==
    IF i > Len(seq) THEN ups
    ELSE add_up_from(seq, Append(ups, IF i = 1 THEN 0 ELSE find_up(seq, ups, i - 1, i)), i + 1)

\* The up pointers of a sequence: position of the command pointed to, 0 for None.
add_up_pointers(seq) == add_up_from(seq, <<>>, 1)

RECURSIVE concat_all(_)
concat_all(command_sets) ==
    IF command_sets = <<>> THEN <<>>
    ELSE Head(command_sets) \o concat_all(Tail(command_sets))

\* CSequence(all) in from_set_union links the commands of all the command
\* sets into one list.  The value is how the command sets given read
\* afterwards: with clone the list is made of copies and every sequence keeps
\* its own links; without, the last command of a sequence is linked to the
\* first command of the sequences after it.
linked_as_one(command_sets, clone) ==
    IF clone THEN command_sets
    ELSE [i \in 1..Len(command_sets) |->
             IF command_sets[i] = <<>> THEN <<>>
             ELSE concat_all(SubSeq(command_sets, i, Len(command_sets)))]

inputs_relinked(command_sets) == linked_as_one(command_sets, FALSE)

inputs_after_union(command_sets) == linked_as_one(command_sets, TRUE)

RECURSIVE drop_equal_runs(_, _)
drop_equal_runs(sorted, i) ==
    IF i > Len(sorted) THEN <<>>
    ELSE IF i = 1 \/ ~command_equals(sorted[i], sorted[i - 1])
         THEN <<sorted[i]>> \o drop_equal_runs(sorted, i + 1)
         ELSE drop_equal_runs(sorted, i + 1)

\* [raised, seq]
union_of_sorted(sorted) ==
    IF sorted.raised THEN [raised |-> TRUE, seq |-> <<>>]
    ELSE [raised |-> FALSE, seq |-> drop_equal_runs(sorted.seq, 1)]

\* An item of a list of command sets that is neither a CSet nor a CSequence
\* is written as a sequence that holds no command but the mark of such an
\* object.
Unknown == <<[unknown |-> TRUE]>>

is_command_set(cset) == \A i \in 1..Len(cset) : "node" \in DOMAIN cset[i]

\* raise Exception("Unknown object received")
has_unknown(command_sets) ==
    \E i \in 1..Len(command_sets) : ~is_command_set(command_sets[i])

from_set_union(command_sets) ==
    IF has_unknown(command_sets) THEN [raised |-> TRUE, seq |-> <<>>]
    ELSE union_of_sorted(order_by_node_value(concat_all(command_sets)))

\* A command set is given by the sequence of its commands in the order in
\* which the set happens to be iterated.
is_canonical_with_ups_only(sequence, ups) ==
    \A i \in 1..Len(sequence) :
        ups[i] # 0 =>
            \/ is_constructor_pair_with_next(sequence[ups[i]], sequence[i])
            \/ is_destructor_pair_with_next(sequence[i], sequence[ups[i]])

is_canonical_with_ups(sequence, ups) ==
    \A i \in 1..Len(sequence) :
        /\ ~(i > 1 /\ node_equals(sequence[i - 1].node, sequence[i].node))
        /\ (ups[i] # 0 =>
                \/ is_constructor_pair_with_next(sequence[ups[i]], sequence[i])
                \/ is_destructor_pair_with_next(sequence[i], sequence[ups[i]]))

is_sequence_canonical(sequence) ==
    is_canonical_with_ups(sequence, add_up_pointers(sequence))

is_set_canonical(cset) == is_sequence_canonical(order_by_node(cset))


nodes_of(seq) == {seq[i].node : i \in 1..Len(seq)}

\* A CSet is a Python set of Command objects.  from_set puts it in a sequence
\* in the order in which the set happens to be iterated: any order.
orderings(cset) ==
    {q \in [1..Cardinality(cset) -> cset] : \A i, j \in DOMAIN q : i # j => q[i] # q[j]}

from_set(cset) == orderings(cset)

as_set(seq) == {seq[i] : i \in 1..Len(seq)}

\* ------------------------------------------------------------ canonicaliser
\* out.add(replacement) unless the replacement is a null command.  out holds
\* one command per node, so it is kept as the sequence of the commands in the
\* order in which they were added.
add_replacement(out, replacement) ==
    IF is_null(replacement) THEN out ELSE Append(out, replacement)

\* The loop over the node-ordered sequence from its second command on;
\* prev_command is sorted[i - 1].  [raised, out, repl_before]: raised is the
\* exception "Input sequence is breaking: input/output value mismatch".
\* Command(prev_command.node, repl_before, prev_command.after)
replacement_swapped(prev_command, repl_before) ==
    Command(prev_command.node, prev_command.after, repl_before)

replacement_of(prev_command, repl_before) ==
    Command(prev_command.node, repl_before, prev_command.after)

RECURSIVE canonical_walk(_, _, _, _, _)
canonical_walk(sorted, i, repl_before, out, checks) ==
    IF i > Len(sorted) THEN [raised |-> FALSE, out |-> out, repl_before |-> repl_before]
    ELSE IF node_equals(sorted[i].node, sorted[i - 1].node)
    THEN IF checks /\ ~value_equals(sorted[i - 1].after, sorted[i].before)
         THEN [raised |-> TRUE, out |-> <<>>, repl_before |-> repl_before]
         ELSE canonical_walk(sorted, i + 1, repl_before, out, checks)
    ELSE canonical_walk(sorted, i + 1, sorted[i].before,
                        add_replacement(out, replacement_of(sorted[i - 1], repl_before)),
                        checks)

\* The replacement of the last run, after the loop.
canonical_last_own_before(sorted, w) ==
    IF w.raised THEN [raised |-> TRUE, out |-> <<>>]
    ELSE [raised |-> FALSE,
          out |-> add_replacement(w.out, sorted[Len(sorted)])]

canonical_last(sorted, w) ==
    IF w.raised THEN [raised |-> TRUE, out |-> <<>>]
    ELSE [raised |-> FALSE,
          out |-> add_replacement(w.out, replacement_of(sorted[Len(sorted)], w.repl_before))]

\* The second check: "Input sequence is breaking #2".
canonical_unchecked(r, checks) == r

canonical_checked(r, checks) ==
    IF r.raised THEN r
    ELSE IF checks /\ ~is_set_canonical(r.out) THEN [raised |-> TRUE, out |-> <<>>]
    ELSE r

canonical_of_sorted(sorted, checks) ==
    IF sorted = <<>> THEN canonical_checked([raised |-> FALSE, out |-> <<>>], checks)
    ELSE canonical_checked(
             canonical_last(sorted, canonical_walk(sorted, 2, sorted[1].before, <<>>, checks)),
             checks)

\* [raised, out]: raised when the sequence is found breaking, else the
\* commands of the canonical set.
get_canonical_set_unchecked(seq, checks) ==
    canonical_of_sorted(order_by_node(seq), FALSE)

get_canonical_set(seq, checks) == canonical_of_sorted(order_by_node(seq), checks)

\* ---------------------------------------------------------------- order_set
RECURSIVE constructors_forward(_, _)
constructors_forward(sequence, i) ==
    IF i > Len(sequence) THEN <<>>
    ELSE IF is_constructor(sequence[i])
         THEN <<sequence[i]>> \o constructors_forward(sequence, i + 1)
         ELSE constructors_forward(sequence, i + 1)

RECURSIVE others_backward(_, _)
others_backward(sequence, i) ==
    IF i < 1 THEN <<>>
    ELSE IF ~is_constructor(sequence[i])
         THEN <<sequence[i]>> \o others_backward(sequence, i - 1)
         ELSE others_backward(sequence, i - 1)

\* add_backlinks leaves end at None on an empty sequence, and backward then
\* fails its assertion: [raised, out].
order_set_of(sequence) ==
    IF sequence = <<>> THEN [raised |-> TRUE, out |-> <<>>]
    ELSE [raised |-> FALSE,
          out |-> constructors_forward(sequence, 1)
                      \o others_backward(sequence, Len(sequence))]

order_set(cset) == order_set_of(order_by_node(cset))

\* ----------------------------------------------------------- greedy merger
\* delete_on_node is the empty set for None, else the set of the one node.
RECURSIVE greedy_walk(_, _, _, _, _, _)
greedy_walk(union, ups, i, delete_conflicts_down, delete_on_node, merger) ==
    IF i > Len(union) THEN merger
    ELSE
    LET command == union[i]
        carry == ups[i] # 0 /\ delete_conflicts_down[union[ups[i]].node]
        carried == IF carry THEN [delete_conflicts_down EXCEPT ![command.node] = TRUE]
                   ELSE delete_conflicts_down
    IN  IF \E n \in delete_on_node : node_equals(command.node, n)
        THEN greedy_walk(union, ups, i + 1, delete_conflicts_down, delete_on_node, merger)
        ELSE IF carry /\ ~is_empty(command.after)
        THEN greedy_walk(union, ups, i + 1, carried, delete_on_node, merger)
        ELSE greedy_walk(union, ups, i + 1,
                         IF ~is_dir(command.after)
                         THEN [carried EXCEPT ![command.node] = TRUE] ELSE carried,
                         {command.node}, Append(merger, command))

\* The walk over the union fu returned by from_set_union: [raised, merger].
greedy_merger_with(fu, ups) ==
    IF fu.raised THEN [raised |-> TRUE, merger |-> <<>>]
    ELSE [raised |-> FALSE,
          merger |-> greedy_walk(fu.seq, ups, 1,
                                 [n \in nodes_of(fu.seq) |-> FALSE], {}, <<>>)]

\* The greedy merger of a union walked without its up pointers added.
greedy_merger_of_no_up(fu) ==
    greedy_merger_with(fu, [i \in 1..Len(fu.seq) |-> 0])

greedy_merger_of(fu) == greedy_merger_with(fu, add_up_pointers(fu.seq))

\* [raised, merger, inputs]
get_greedy_merger(command_sets) ==
    [inputs |-> inputs_after_union(command_sets)]
        @@ greedy_merger_of(from_set_union(command_sets))

\* -------------------------------------------------------- refluency checker
\* The index bitmap of a node, as the set of the positions (from 0) of the
\* command sets that have a command on the node.
node_index(command_sets, n) ==
    {i \in 0..(Len(command_sets) - 1) : n \in nodes_of(command_sets[i + 1])}

refluent_at(command_sets, union, ups, i) ==
    LET command == union[i]
        up == union[ups[i]]
        index == node_index(command_sets, command.node)
        up_index == node_index(command_sets, up.node)
    IN  /\ (i > 1 /\ node_equals(union[i - 1].node, command.node))
              => value_equals(union[i - 1].before, command.before)
        /\ ups[i] # 0 =>
              /\ is_parent_of(up.node, command.node)
              /\ (is_parent_of(up.node, command.node) /\ ~is_dir(up.before))
                    => (index \cap up_index) = index
        /\ ~is_empty(command.before) =>
              (ups[i] = 0 \/ (up_index \cap index) = up_index)

\* [raised, value]
refluent_with_ups(command_sets, union, ups) ==
    \A i \in 1..Len(union) : refluent_at(command_sets, union, ups, i)

refluent_union(command_sets, union) ==
    refluent_with_ups(command_sets, union, add_up_pointers(union))

refluent_of(command_sets, fu) ==
    IF fu.raised THEN [raised |-> TRUE, value |-> FALSE]
    ELSE [raised |-> FALSE, value |-> refluent_union(command_sets, order_by_node(fu.seq))]

check_refluent(command_sets) ==
    IF has_unknown(command_sets) THEN [raised |-> TRUE, value |-> FALSE]
    ELSE refluent_of(command_sets, from_set_union(command_sets))


\* ------------------------------------------------------------ get_any_merger
\* The name of the node of the pass-2 pseudo command, '_children'.
CHILDREN == 0

\* The flags get_any_merger keeps on a Node object; initialised is FALSE while
\* has_destructor_on_dir is still None (all five are then None, which reads
\* as false).
FreshNode ==
    [initialised |-> FALSE, has_destructor_on_dir |-> FALSE,
     has_constructor_on_empty_child |-> FALSE, delete_creators_down |-> FALSE,
     delete_creators_strictly_down |-> FALSE, delete_destructors_up |-> FALSE]

\* The state of one invocation, S: union and ups (fixed), delete (per command),
\* nf (the flags of the nodes), decisions, decision_index, and failed (an
\* assertion of make_decision did not hold).

\* increment that lets current_decision reach num_options.
RECURSIVE increment_one_more(_, _)
increment_one_more(decisions, i) ==
    IF i < 1 THEN [none |-> FALSE, decisions |-> decisions]
    ELSE IF decisions[i].current_decision < decisions[i].num_options
    THEN [none |-> FALSE,
          decisions |-> [decisions EXCEPT ![i].current_decision = @ + 1]]
    ELSE IF i = 1 THEN [none |-> TRUE, decisions |-> <<>>]
    ELSE increment_one_more(SubSeq(decisions, 1, i - 1), i - 1)

\* First increment the decisions list: [none, decisions]; none means that no
\* more mergers can be generated.
RECURSIVE increment(_, _)
increment(decisions, i) ==
    IF i < 1 THEN [none |-> FALSE, decisions |-> decisions]
    ELSE IF decisions[i].current_decision < decisions[i].num_options - 1
    THEN [none |-> FALSE,
          decisions |-> [decisions EXCEPT ![i].current_decision = @ + 1]]
    ELSE IF i = 1 THEN [none |-> TRUE, decisions |-> <<>>]
    ELSE increment(SubSeq(decisions, 1, i - 1), i - 1)

\* make_decision that answers a new decision with the last command offered,
\* while recording current_decision 0.
make_decision_last(S, num_commands) ==
    IF Len(S.decisions) <= S.decision_index
    THEN [S |-> [S EXCEPT !.decisions = Append(@, [current_decision |-> 0,
                                                   num_options |-> num_commands]),
                          !.decision_index = @ + 1],
          d |-> num_commands - 1]
    ELSE [S |-> [S EXCEPT !.decision_index = @ + 1],
          d |-> S.decisions[S.decision_index + 1].current_decision]

\* [S, d]: the state after the decision and the position (from 0) chosen
\* among the commands offered.
make_decision(S, num_commands) ==
    IF Len(S.decisions) <= S.decision_index
    THEN [S |-> [S EXCEPT !.decisions = Append(@, [current_decision |-> 0,
                                                   num_options |-> num_commands]),
                          !.decision_index = @ + 1,
                          !.failed = @ \/ Len(S.decisions) # S.decision_index],
          d |-> 0]
    ELSE LET dec == S.decisions[S.decision_index + 1]
             ok == dec.num_options = num_commands
         IN  [S |-> [S EXCEPT !.decision_index = @ + 1, !.failed = @ \/ ~ok],
              d |-> IF ok THEN dec.current_decision ELSE 0]

\* process_flags that passes the flag down and marks no command as deleted.
process_flags_no_delete(S, i) ==
    LET n == S.union[i].node
        up == S.ups[i]
        carry == up # 0 /\ (\/ S.nf[S.union[up].node].delete_creators_strictly_down
                            \/ S.nf[S.union[up].node].delete_creators_down)
    IN  IF carry THEN [S EXCEPT !.nf[n].delete_creators_down = TRUE] ELSE S

process_flags(S, i) ==
    LET command == S.union[i]
        n == command.node
        up == S.ups[i]
        carry == up # 0 /\ (\/ S.nf[S.union[up].node].delete_creators_strictly_down
                            \/ S.nf[S.union[up].node].delete_creators_down)
        nf1 == IF carry THEN [S.nf EXCEPT ![n].delete_creators_down = TRUE] ELSE S.nf
        del == \/ (nf1[n].delete_creators_down /\ ~is_empty(command.after))
               \/ (nf1[n].delete_destructors_up /\ is_destructor(command))
    IN  [S EXCEPT !.nf = nf1, !.delete[i] = @ \/ del]

\* mark_delete_destructors_up that marks the node of the command and stops,
\* without following the up pointers.
mark_delete_destructors_up_once(S, i) ==
    LET n == S.union[i].node
    IN  IF S.nf[n].delete_destructors_up THEN S
        ELSE [S EXCEPT !.nf[n].delete_destructors_up = TRUE,
                       !.nf[n].has_destructor_on_dir = FALSE]

RECURSIVE mark_delete_destructors_up(_, _)
mark_delete_destructors_up(S, i) ==
    LET n == S.union[i].node
        S1 == [S EXCEPT !.nf[n].delete_destructors_up = TRUE,
                        !.nf[n].has_destructor_on_dir = FALSE]
    IN  IF S.nf[n].delete_destructors_up THEN S
        ELSE IF S.ups[i] # 0 THEN mark_delete_destructors_up(S1, S.ups[i])
        ELSE S1

\* (0) Initialise flags in top-down order
RECURSIVE init_flags(_, _)
init_flags(S, i) ==
    IF i > Len(S.union) THEN S
    ELSE
    LET command == S.union[i]
        n == command.node
        nf1 == IF S.nf[n].initialised THEN S.nf
               ELSE [S.nf EXCEPT ![n] = [FreshNode EXCEPT !.initialised = TRUE]]
        nf2 == IF is_destructor(command) /\ is_dir(command.before)
               THEN [nf1 EXCEPT ![n].has_destructor_on_dir = TRUE] ELSE nf1
        nf3 == IF S.ups[i] # 0 /\ is_constructor(command) /\ is_empty(command.before)
               THEN [nf2 EXCEPT ![S.union[S.ups[i]].node].has_constructor_on_empty_child = TRUE]
               ELSE nf2
    IN  init_flags([S EXCEPT !.delete[i] = FALSE, !.nf = nf3], i + 1)

\* Mark the other commands of the group for deletion.
delete_others(S, group, keep) ==
    [S EXCEPT !.delete = [j \in DOMAIN @ |->
        IF \E k \in 1..Len(group) : group[k] = j /\ ~command_equals(S.union[j], S.union[keep])
        THEN TRUE ELSE @[j]]]

process_node_commands_1(S, commands) ==
    IF Len(commands) = 1 \/ ~is_file(S.union[commands[1]].before) THEN S
    ELSE
    LET md == make_decision(S, Len(commands))
        keep == commands[md.d + 1]
        n == S.union[keep].node
        S1 == IF is_destructor(S.union[keep])
              THEN [md.S EXCEPT !.nf[n].delete_creators_strictly_down = TRUE]
              ELSE IF is_constructor(S.union[keep])
              THEN mark_delete_destructors_up(md.S, keep)
              ELSE [mark_delete_destructors_up(md.S, keep)
                        EXCEPT !.nf[n].delete_creators_strictly_down = TRUE]
    IN  delete_others(S1, commands, keep)

process_node_commands_3(S, commands) ==
    IF Len(commands) = 1 \/ ~is_empty(S.union[commands[1]].before) THEN S
    ELSE
    LET md == make_decision(S, Len(commands))
        keep == commands[md.d + 1]
        n == S.union[keep].node
        S1 == IF is_file(S.union[keep].after)
              THEN [md.S EXCEPT !.nf[n].delete_creators_strictly_down = TRUE]
              ELSE md.S
    IN  delete_others(S1, commands, keep)

process_node_commands_4(S, commands) ==
    IF Len(commands) = 1 \/ ~is_dir(S.union[commands[1]].before) THEN S
    ELSE
    LET md == make_decision(S, Len(commands))
        keep == commands[md.d + 1]
        S1 == IF is_file(S.union[keep].after) /\ S.ups[keep] # 0
              THEN mark_delete_destructors_up(md.S, S.ups[keep])
              ELSE md.S
    IN  delete_others(S1, commands, keep)

process_node_commands(S, commands, pass) ==
    IF pass = 1 THEN process_node_commands_1(S, commands)
    ELSE IF pass = 3 THEN process_node_commands_3(S, commands)
    ELSE process_node_commands_4(S, commands)

\* The loop of passes 1, 3 and 4: visit the positions in order (forward in
\* passes 1 and 3, backward in pass 4), collecting in node_commands the
\* commands on one node that are not deleted; prev_command is 0 for None.
RECURSIVE group_pass(_, _, _, _, _, _)
group_pass(S, order, k, prev_command, node_commands, pass) ==
    IF k > Len(order)
    THEN IF node_commands # <<>> THEN process_node_commands(S, node_commands, pass) ELSE S
    ELSE
    LET i == order[k]
        S1 == process_flags(S, i)
    IN  IF S1.delete[i] THEN group_pass(S1, order, k + 1, prev_command, node_commands, pass)
        ELSE IF prev_command # 0 /\ node_equals(S1.union[prev_command].node, S1.union[i].node)
        THEN group_pass(S1, order, k + 1, i, Append(node_commands, i), pass)
        ELSE group_pass(IF node_commands # <<>>
                        THEN process_node_commands(S1, node_commands, pass) ELSE S1,
                        order, k + 1, i, <<i>>, pass)

\* (2) Second pass processing <^n,D,FE>,<n,E,DF> command pairs (bottom-up)
RECURSIVE pass_2(_, _, _)
pass_2(S, i, prev_command) ==
    IF i < 1 THEN S
    ELSE
    LET S1 == process_flags(S, i)
        command == S1.union[i]
        n == command.node
        dummy == Command(<<CHILDREN>>, Value(T_EMPTY, 0), Value(T_DIR, 0))
        md == make_decision(S1, 2)
        keep == IF md.d = 0 THEN command ELSE dummy
        S2 == IF command_equals(keep, command)
              THEN [md.S EXCEPT !.nf[n].delete_creators_strictly_down = TRUE]
              ELSE mark_delete_destructors_up(md.S, i)
    IN  IF S1.delete[i] THEN pass_2(S1, i - 1, prev_command)
        ELSE IF (prev_command = 0 \/ ~node_equals(S1.union[prev_command].node, n))
                /\ S1.nf[n].has_destructor_on_dir
                /\ S1.nf[n].has_constructor_on_empty_child
        THEN pass_2(S2, i - 1, i)
        ELSE pass_2(S1, i - 1, i)

\* (5) Finally, collect the remaining commands: [S, merger]
RECURSIVE collect(_, _, _)
collect(S, i, merger) ==
    IF i > Len(S.union) THEN [S |-> S, merger |-> merger]
    ELSE LET S1 == process_flags(S, i)
         IN  collect(S1, i + 1, IF S1.delete[i] THEN merger ELSE Append(merger, S1.union[i]))

forward(n) == [k \in 1..n |-> k]
backward(n) == [k \in 1..n |-> n + 1 - k]

\* first_or_next that keeps the entries after the one incremented, set back
\* to their first option, instead of removing them.
first_or_next_keep_tail(decisions) ==
    IF decisions.none THEN [none |-> FALSE, decisions |-> <<>>]
    ELSE IF increment(decisions.decisions, Len(decisions.decisions)).none
    THEN [none |-> TRUE, decisions |-> <<>>]
    ELSE [none |-> FALSE,
          decisions |->
              [k \in 1..Len(decisions.decisions) |->
                  IF k <= Len(increment(decisions.decisions, Len(decisions.decisions)).decisions)
                  THEN increment(decisions.decisions, Len(decisions.decisions)).decisions[k]
                  ELSE [decisions.decisions[k] EXCEPT !.current_decision = 0]]]

\* decisions is [none, decisions] (none for None); nodes gives the flags on
\* the Node objects of the Session when the call is made.  The result is
\* [raised, failed, none, decisions, merger, nodes, step_0, consumed, inputs]:
\* an AttributeError raised by from_set_union, a failed assertion, or the
\* pair returned (none for (None, None)), the flags left on the nodes, the
\* flags as step (0) left them, decision_index at the end and how the
\* command sets given read after the call.
first_or_next(decisions) ==
    IF decisions.none THEN [none |-> FALSE, decisions |-> <<>>]
    ELSE increment(decisions.decisions, Len(decisions.decisions))

initial_state(union, decisions, nodes) ==
    [union |-> union, ups |-> add_up_pointers(union),
     delete |-> [i \in 1..Len(union) |-> FALSE], nf |-> nodes,
     decisions |-> decisions, decision_index |-> 0, failed |-> FALSE]

\* Passes 0 to 5 in their order.
passes(S0, n) ==
    collect(group_pass(group_pass(pass_2(group_pass(init_flags(S0, 1),
                                                    forward(n), 1, 0, <<>>, 1),
                                         n, 0),
                                  forward(n), 1, 0, <<>>, 3),
                       backward(n), 1, 0, <<>>, 4),
            1, <<>>)

\* The flags of the nodes as step (0) leaves them.
step_0(S0) == init_flags(S0, 1).nf

returned(out, flags_0) ==
    [raised |-> FALSE, failed |-> out.S.failed, none |-> FALSE,
     decisions |-> out.S.decisions, merger |-> out.merger, nodes |-> out.S.nf,
     step_0 |-> flags_0, consumed |-> out.S.decision_index]

any_merger_of(inc, fu, nodes) ==
    IF inc.none
    THEN [raised |-> FALSE, failed |-> FALSE, none |-> TRUE, decisions |-> <<>>,
          merger |-> <<>>, nodes |-> nodes, step_0 |-> nodes, consumed |-> 0]
    ELSE IF fu.raised
    THEN [raised |-> TRUE, failed |-> FALSE, none |-> FALSE, decisions |-> <<>>,
          merger |-> <<>>, nodes |-> nodes, step_0 |-> nodes, consumed |-> 0]
    ELSE returned(passes(initial_state(fu.seq, inc.decisions, nodes), Len(fu.seq)),
                  step_0(initial_state(fu.seq, inc.decisions, nodes)))

get_any_merger(command_sets, decisions, nodes) ==
    [inputs |-> IF first_or_next(decisions).none THEN command_sets
                ELSE inputs_after_union(command_sets)]
        @@ any_merger_of(first_or_next(decisions), from_set_union(command_sets), nodes)


\* ------------------------------------------------------------------ inputs
\* The values and the nodes the session definitions are written over.
Values ==
    {Value(T_EMPTY, 0), Value(T_DIR, 0)} \cup {Value(T_FILE, c) : c \in 1..MaxContents}

\* The nodes 1, 1/2, 1/2/3, ... and one more child of each of their parents.
Chain == [k \in 1..MaxDepth |-> k]
Paths ==
    {SubSeq(Chain, 1, k) : k \in 1..MaxDepth}
        \cup {Append(SubSeq(Chain, 1, k - 1), k + 1) : k \in 2..MaxDepth}

Commands == {c \in [node : Paths, before : Values, after : Values] : ~is_null(c)}

\* The canonical sets of k commands, written in node order (the first k - 1
\* commands of such a set are a canonical set too).
RECURSIVE CanonicalSets(_)
CanonicalSets(k) ==
    IF k = 0 THEN {<<>>}
    ELSE {t \in {Append(s, c) : s \in CanonicalSets(k - 1), c \in Commands} :
            /\ k > 1 => path_less(t[k - 1].node, t[k].node)
            /\ is_set_canonical(t)}

\* Scenarios of the documentation and of the tests of session.py.
E == Value(T_EMPTY, 0)
D == Value(T_DIR, 0)
F(c) == Value(T_FILE, c)

S3a == <<Command(<<1>>, E, D), Command(<<1, 2>>, E, D), Command(<<1, 2, 3>>, E, F(1))>>
S3b == <<Command(<<1>>, E, D), Command(<<1, 2>>, E, D), Command(<<1, 2, 3>>, E, F(2))>>
S6a == <<Command(<<1, 2>>, D, E), Command(<<1>>, D, E)>>
S6b == <<Command(<<1, 2, 3>>, E, D)>>
FarB == <<Command(<<1, 2, 3, 4, 5, 6>>, E, D)>>
\* Two files created under the directories that S6a removes: the mergers of
\* <<S6a, TwoFiles>> take two decisions, and the second is asked only after
\* one answer to the first.
TwoFiles == <<Command(<<1, 2, 3>>, E, F(1)), Command(<<1, 3>>, E, F(1))>>

Scenarios ==
    {<<S3a, S3b>>, <<S3b, S3a>>, <<S6a, S6b>>, <<S6a, FarB>>, <<S6a, FarB, FarB>>,
     <<S6a, TwoFiles>>}

\* The command sequences given to the operations of CSequence: every sequence
\* of at most MaxSeqLen commands (null commands too) on the nodes, and the
\* sequences of the tests of session.py.
AllCommands == [node : Paths, before : Values, after : Values]

T1 == <<Command(<<1>>, E, D), Command(<<1, 2>>, E, D), Command(<<1, 2, 3>>, E, F(1)),
        Command(<<1, 2, 3>>, F(1), F(2))>>
T2 == <<Command(<<1, 2>>, E, D), Command(<<1, 2, 3>>, E, F(1)), Command(<<1>>, E, D)>>
T3 == <<Command(<<1, 2, 3>>, D, E), Command(<<1>>, D, E), Command(<<1, 2>>, D, E)>>
T4 == <<Command(<<1>>, E, D), Command(<<1, 2>>, E, D), Command(<<1>>, D, E)>>
T5 == <<Command(<<1, 2, 3>>, E, F(1)), Command(<<1, 2, 3>>, F(1), F(2))>>
T6 == <<Command(<<1>>, E, D), Command(<<1, 2, 3>>, E, F(1))>>
T7 == <<Command(<<1, 2, 3>>, E, F(1)), Command(<<1, 2>>, E, D),
        Command(<<1, 2, 3>>, F(1), F(2)), Command(<<1>>, E, D)>>

T8 == <<Command(<<1>>, E, D), Command(<<1, 2>>, E, D), Command(<<1, 2, 3>>, E, F(1)),
        Command(<<1, 3>>, E, F(1))>>

SeqScenarios == {T1, T2, T3, T4, T5, T6, T7, T8, S3a}

IsSequence(commands) ==
    \/ \E k \in 0..MaxSeqLen : commands \in [1..k -> AllCommands]
    \/ commands \in SeqScenarios

\* The session definitions: one or two canonical sets of at most MaxCmds
\* commands together, or a scenario.
IsInput(session_def) ==
    \/ \E ka \in 1..MaxCmds : \E a \in CanonicalSets(ka) :
          \/ session_def = <<a>>
          \/ \E kb \in 1..(MaxCmds - ka) : \E b \in CanonicalSets(kb) :
                session_def = <<a, b>>
    \/ session_def \in Scenarios

\* ----------------------------------------------------------- state machine
VARIABLES
    sets,       \* the session definition: the list of command sequences
    pc,         \* "start", "check", "greedy", "enum" or "done"
    refluent,   \* what check_refluent did: [called, raised, value]
    greedy,     \* what get_greedy_merger did: [called, raised, merger, inputs]
    decisions,  \* the variable decisions of get_all_mergers: [none, decisions]
    yielded,    \* the mergers get_all_mergers has printed
    vectors,    \* the decision vectors returned with them
    raised,     \* get_any_merger raised instead of returning
    nodes,      \* the flags on the nodes of the Session of the last call
    node_of,    \* the Node object of each command of the Session, in the order
                \* of all_commands; object i is the Node made for command i
    seq,        \* a command sequence given to an operation of CSequence
    result      \* the last call: [op, arg, checks, raised, out] and, in prev,
                \* what the call before it returned

vars == <<sets, pc, refluent, greedy, decisions, yielded, vectors, raised, nodes,
          node_of, seq, result>>

None == [none |-> TRUE, decisions |-> <<>>]

NoResult ==
    [op |-> "none", arg |-> <<>>, checks |-> FALSE, raised |-> FALSE, out |-> <<>>,
     prev |-> <<>>]

\* Session.__init__ makes a Node for every command, sorts all_commands on
\* their nodes and gives a command the Node object of the command before it
\* when their paths are equal.  sorted holds [c, order]; command order + 1 of
\* all_commands has the Node object node_of[order + 1].
RECURSIVE intern_walk(_, _, _)
intern_walk(sorted, k, objects) ==
    IF k > Len(sorted) THEN objects
    ELSE IF k > 1 /\ node_equals(sorted[k].c.node, sorted[k - 1].c.node)
    THEN intern_walk(sorted, k + 1,
                     [objects EXCEPT ![sorted[k].order + 1] = objects[sorted[k - 1].order + 1]])
    ELSE intern_walk(sorted, k + 1, objects)

\* Interning that walks all_commands as they were given, not sorted.
intern_nodes_unsorted(all_commands) ==
    intern_walk(with_order(all_commands), 1, [i \in 1..Len(all_commands) |-> i])

intern_nodes(all_commands) ==
    intern_walk(heap_sort(with_order(all_commands), "path").arr, 1,
                [i \in 1..Len(all_commands) |-> i])

\* A Session built from the definition: one Node, with no flag set, per path.
Session(session_def) == [n \in nodes_of(concat_all(session_def)) |-> FreshNode]

Init ==
    /\ sets = <<>>
    /\ pc = "start"
    /\ refluent = [called |-> FALSE, raised |-> FALSE, value |-> FALSE]
    /\ greedy = [called |-> FALSE, raised |-> FALSE, merger |-> <<>>, inputs |-> <<>>]
    /\ decisions = None
    /\ yielded = <<>>
    /\ vectors = <<>>
    /\ raised = FALSE
    /\ nodes = Session(<<>>)
    /\ node_of = <<>>
    /\ seq = <<>>
    /\ result = NoResult

\* A session definition is given and its Session is built.
NewSession ==
    /\ pc = "start"
    /\ IsInput(sets')
    /\ nodes' = Session(sets')
    /\ node_of' = intern_nodes(concat_all(sets'))
    /\ pc' = "check"
    /\ UNCHANGED <<refluent, greedy, decisions, yielded, vectors, raised, seq, result>>

\* check_refluent on a fresh Session; a list found not refluent is not merged.
CheckRefluent ==
    /\ pc = "check"
    /\ refluent' = [called |-> TRUE] @@ check_refluent(sets)
    /\ pc' = IF ~refluent'.raised /\ ~refluent'.value THEN "done" ELSE "greedy"
    /\ UNCHANGED <<sets, greedy, decisions, yielded, vectors, raised, nodes>>
    /\ UNCHANGED <<node_of, seq, result>>

\* get_greedy_merger on a fresh Session.
GreedyMerger ==
    /\ pc = "greedy"
    /\ greedy' = [called |-> TRUE] @@ get_greedy_merger(sets)
    /\ pc' = "enum"
    /\ UNCHANGED <<sets, refluent, decisions, yielded, vectors, raised, nodes>>
    /\ UNCHANGED <<node_of, seq, result>>

\* What a call on the list arg did: [op, arg, raised, out].
ListCall(op, arg, r_raised, out) ==
    [NoResult EXCEPT !.op = op, !.arg = arg, !.raised = r_raised, !.out = out]

\* What the loop does with what get_any_merger did: an exception ends the
\* program, None ends the loop, and a merger is printed and its decisions kept.
Returned(r) ==
    /\ result' = ListCall("get_any_merger", decisions, r.raised, r)
    /\ IF r.raised \/ r.failed
       THEN /\ raised' = TRUE
            /\ pc' = "done"
            /\ UNCHANGED <<decisions, yielded, vectors, nodes>>
       ELSE IF r.none
       THEN /\ decisions' = None
            /\ pc' = "done"
            /\ UNCHANGED <<yielded, vectors, raised, nodes>>
       ELSE /\ decisions' = [none |-> FALSE, decisions |-> r.decisions]
            /\ yielded' = Append(yielded, r.merger)
            /\ vectors' = Append(vectors, r.decisions)
            /\ nodes' = r.nodes
            /\ UNCHANGED <<pc, raised>>

\* One turn of the loop of get_all_mergers: a fresh Session, get_any_merger
\* with the decisions of the turn before, and the merger printed unless the
\* decisions returned are None.
GetAllMergersStep ==
    /\ pc = "enum"
    /\ Len(yielded) < MaxCalls
    /\ Returned(get_any_merger(sets, decisions, Session(sets)))
    /\ UNCHANGED <<sets, refluent, greedy, node_of, seq>>

\* What is seen of a call of get_any_merger made outside the loop.
ReturnedOnce(op, r) ==
    /\ result' = ListCall(op, decisions, r.raised, r)
    /\ pc' = "returned"
    /\ UNCHANGED <<sets, refluent, greedy, decisions, yielded, vectors, raised, nodes,
                   node_of, seq>>

\* get_any_merger called again on the Session of the call before it, whose
\* nodes carry the flags that call left, with the decisions it returned.
GetAnyMergerSameSession ==
    /\ pc = "enum"
    /\ Len(yielded) >= 1
    /\ ReturnedOnce("get_any_merger_same_session", get_any_merger(sets, decisions, nodes))

\* from_set_union on the sequences of the Session.
FromSetUnion ==
    /\ pc = "check"
    /\ result' = [NoResult EXCEPT !.op = "from_set_union",
                                  !.arg = concat_all(sets),
                                  !.raised = from_set_union(sets).raised,
                                  !.out = from_set_union(sets).seq]
    /\ pc' = "returned"
    /\ UNCHANGED <<sets, refluent, greedy, decisions, yielded, vectors, raised, nodes,
                   node_of, seq>>

\* check_refluent on the sequences of the Session and one more item that is
\* not a command set.
CheckRefluentUnknown ==
    /\ pc = "check"
    /\ result' = ListCall("check_refluent", Append(sets, Unknown),
                          check_refluent(Append(sets, Unknown)).raised,
                          check_refluent(Append(sets, Unknown)).value)
    /\ pc' = "returned"
    /\ UNCHANGED <<sets, refluent, greedy, decisions, yielded, vectors, raised, nodes,
                   node_of, seq>>

\* check_refluent on a fresh Session that gives the sequences in another
\* order; prev is what check_refluent does on the order of the definition.
CheckRefluentPermuted ==
    /\ pc = "check"
    /\ \E p \in [1..Len(sets) -> 1..Len(sets)] :
          /\ \A i, j \in 1..Len(sets) : i # j => p[i] # p[j]
          /\ result' = [ListCall("check_refluent_permuted",
                                 [i \in 1..Len(sets) |-> sets[p[i]]],
                                 check_refluent([i \in 1..Len(sets) |-> sets[p[i]]]).raised,
                                 check_refluent([i \in 1..Len(sets) |-> sets[p[i]]]).value)
                        EXCEPT !.prev = check_refluent(sets)]
    /\ pc' = "returned"
    /\ UNCHANGED <<sets, refluent, greedy, decisions, yielded, vectors, raised, nodes,
                   node_of, seq>>

Next ==
    \/ NewSession
    \/ CheckRefluent
    \/ GreedyMerger
    \/ GetAllMergersStep
    \/ FromSetUnion
    \/ CheckRefluentUnknown
    \/ CheckRefluentPermuted
    \/ GetAnyMergerSameSession

Spec == Init /\ [][Next]_vars

\* ---------------------------------------------- operations on one sequence
listvars == <<sets, refluent, greedy, decisions, yielded, vectors, raised, nodes, node_of>>

\* A command sequence is built: CSequence(commands).
NewSequence ==
    /\ pc = "start"
    /\ IsSequence(seq')
    /\ pc' = "seq"
    /\ UNCHANGED <<result, listvars>>

Called(op, checks, r) ==
    /\ result' = [op |-> op, arg |-> seq, checks |-> checks, raised |-> r.raised,
                  out |-> r.out, prev |-> <<>>]
    /\ pc' = "returned"
    /\ UNCHANGED <<seq, listvars>>

\* seq.order_by_node()
OrderByNode ==
    /\ pc = "seq"
    /\ Called("order_by_node", FALSE, [raised |-> FALSE, out |-> order_by_node(seq)])

\* seq.order_by_node_value()
OrderByNodeValue ==
    /\ pc = "seq"
    /\ Called("order_by_node_value", FALSE,
              [raised |-> order_by_node_value(seq).raised,
               out |-> order_by_node_value(seq).seq])

\* seq.order_by_node().add_up_pointers(): arg is the sorted sequence, out the
\* up pointers.
AddUpPointers ==
    /\ pc = "seq"
    /\ result' = [op |-> "add_up_pointers", arg |-> order_by_node(seq), checks |-> FALSE,
                  raised |-> FALSE, out |-> add_up_pointers(order_by_node(seq)),
                  prev |-> <<>>]
    /\ pc' = "returned"
    /\ UNCHANGED <<seq, listvars>>

\* seq.get_canonical_set(checks)
GetCanonicalSet ==
    /\ pc = "seq"
    /\ \E checks \in BOOLEAN :
          Called("get_canonical_set", checks, get_canonical_set(seq, checks))

\* CSequence.is_set_canonical(seq.as_set()): seq is the order in which the
\* set is iterated.
IsSetCanonical ==
    /\ pc = "seq"
    /\ Called("is_set_canonical", FALSE, [raised |-> FALSE, out |-> is_set_canonical(seq)])

\* CSequence.order_set(seq.as_set()), for a canonical set.
OrderSet ==
    /\ pc = "seq"
    /\ is_set_canonical(seq)
    /\ Called("order_set", FALSE, order_set(seq))

CalledAgain(op, arg, checks, r) ==
    /\ result' = [op |-> op, arg |-> arg, checks |-> checks, raised |-> r.raised,
                  out |-> r.out, prev |-> result.out]
    /\ UNCHANGED <<pc, seq, listvars>>

\* get_canonical_set(from_set(c)) on the set c that get_canonical_set returned.
GetCanonicalSetAgain ==
    /\ pc = "returned"
    /\ result.op = "get_canonical_set"
    /\ ~result.raised
    /\ \E q \in from_set(as_set(result.out)) :
          CalledAgain("get_canonical_set_again", q, result.checks,
                      get_canonical_set(q, result.checks))

Reordered(other, checks) ==
    CalledAgain("get_canonical_set_reordered", other, checks,
                get_canonical_set(other, checks))

\* get_canonical_set on another ordering of the commands of seq, when
\* get_canonical_set(checks=True) did not find seq breaking.
GetCanonicalSetReordered ==
    /\ pc = "returned"
    /\ result.op = "get_canonical_set"
    /\ result.checks
    /\ ~result.raised
    /\ \E p \in [1..Len(seq) -> 1..Len(seq)] :
          /\ \A i, j \in 1..Len(seq) : i # j => p[i] # p[j]
          /\ \E checks \in BOOLEAN :
                Reordered([i \in 1..Len(seq) |-> seq[p[i]]], checks)

SeqNext ==
    \/ NewSequence
    \/ OrderByNode
    \/ OrderByNodeValue
    \/ AddUpPointers
    \/ GetCanonicalSet
    \/ IsSetCanonical
    \/ OrderSet
    \/ GetCanonicalSetAgain
    \/ GetCanonicalSetReordered

SeqSpec == Init /\ [][SeqNext]_vars

\* ------------------------------------------------------------------ claims
\* Two command sequences hold the same command set.
same_set(s, t) ==
    /\ Len(s) = Len(t)
    /\ {s[i] : i \in 1..Len(s)} = {t[i] : i \in 1..Len(t)}

\* The list was found jointly refluent by check_refluent.
FoundRefluent == refluent.called /\ ~refluent.raised /\ refluent.value

\* C1: every merger get_any_merger returns during the enumeration over a list
\* of canonical, jointly refluent command sets is a canonical set.
C1_MergersCanonical ==
    FoundRefluent => \A i \in 1..Len(yielded) : is_set_canonical(yielded[i])

\* A second merger has been returned, after a decision was changed, and it
\* drops some command of the union.
C1_Witness ==
    /\ FoundRefluent
    /\ Len(yielded) >= 2
    /\ Len(vectors[2]) >= 1
    /\ vectors[2][1].current_decision = 1
    /\ Len(yielded[2]) < Len(concat_all(sets))

\* C2: on a list of canonical sets on which check_refluent returns true,
\* get_greedy_merger returns a sequence whose command set is canonical.
C2_GreedyCanonical ==
    (FoundRefluent /\ greedy.called)
        => (~greedy.raised /\ is_set_canonical(greedy.merger))

\* The greedy merger was computed for a refluent list and dropped a command.
C2_Witness ==
    /\ FoundRefluent
    /\ greedy.called
    /\ ~greedy.raised
    /\ Len(greedy.merger) < Len(concat_all(sets))


\* The product of num_options over the decisions of a vector.
RECURSIVE options_product(_)
options_product(decs) ==
    IF decs = <<>> THEN 1 ELSE Head(decs).num_options * options_product(Tail(decs))

\* C3: the enumeration yields every merger exactly once (no two turns return
\* equal command sets) and, when it has ended, as many mergers as the product
\* of num_options over the decisions.
C3_EveryMergerOnce ==
    /\ \A i, j \in 1..Len(yielded) : i < j => ~same_set(yielded[i], yielded[j])
    /\ (pc = "done" /\ ~raised /\ Len(yielded) >= 1)
          => Len(yielded) = options_product(vectors[1])

\* C4: the enumeration loop terminates: on a list of canonical, jointly
\* refluent sets get_any_merger, called again and again with the vector it
\* returned, reaches (None, None). A call is a function of the list and of the
\* vector it is given, so the loop runs for ever exactly when a call returns a
\* vector that an earlier call returned: termination is stated as no decision
\* vector being returned twice.
C4_Terminates ==
    FoundRefluent =>
        \A i, j \in 1..Len(vectors) : i < j => vectors[i] # vectors[j]

\* C5: get_greedy_merger returns the command set of the first merger that
\* get_any_merger returns on the same list (and raises when it raises).
C5_GreedyIsFirst ==
    (greedy.called /\ (Len(yielded) >= 1 \/ raised))
        => /\ greedy.raised <=> raised
           /\ Len(yielded) >= 1 => same_set(greedy.merger, yielded[1])

\* The first merger follows a decision and differs from the union.
C5_Witness ==
    /\ FoundRefluent
    /\ greedy.called
    /\ Len(yielded) >= 1
    /\ Len(vectors[1]) >= 1
    /\ Len(yielded[1]) < Len(concat_all(sets))

\* C7: on the lists [a, b] and [b, a] of scenario S3 the greedy merger is the
\* set that comes first in the list.
C7_GreedyFollowsListOrder ==
    greedy.called =>
        /\ sets = <<S3a, S3b>> => (~greedy.raised /\ same_set(greedy.merger, S3a))
        /\ sets = <<S3b, S3a>> => (~greedy.raised /\ same_set(greedy.merger, S3b))

\* C8: on scenario S6 check_refluent returns true and the enumeration yields
\* exactly two mergers, one equal to a and one equal to {<1/2/3,E,D>}.
C8_ParentDestroyChildBuild ==
    sets = <<S6a, S6b>> =>
        /\ refluent.called => (~refluent.raised /\ refluent.value)
        /\ ~raised
        /\ \A i \in 1..Len(yielded) :
              same_set(yielded[i], S6a) \/ same_set(yielded[i], S6b)
        /\ \A i, j \in 1..Len(yielded) : i < j => ~same_set(yielded[i], yielded[j])
        /\ pc = "done" => Len(yielded) = 2

\* The enumeration over scenario S6 has ended.
C8_Witness == sets = <<S6a, S6b>> /\ pc = "done" /\ Len(yielded) = 2

\* Conditions (a)-(d) of joint refluency, on the union of the command sets:
\* the up command of a command is a command on the nearest strict ancestor of
\* its node that has commands.
UnionSet == {concat_all(sets)[i] : i \in 1..Len(concat_all(sets))}
AncestorsWithCommands(n) ==
    {c.node : c \in {c \in UnionSet : is_ancestor_of(c.node, n)}}
HasUp(c) == AncestorsWithCommands(c.node) # {}
UpNode(c) ==
    CHOOSE p \in AncestorsWithCommands(c.node) :
        \A q \in AncestorsWithCommands(c.node) : Len(q) <= Len(p)
ParentOf(n) == SubSeq(n, 1, Len(n) - 1)
IndexOf(n) == node_index(sets, n)

ConditionA == \A c, d \in UnionSet : c.node = d.node => c.before = d.before
ConditionB ==
    \A c \in UnionSet :
        (\E d \in UnionSet : Len(c.node) >= 1 /\ d.node = ParentOf(c.node))
            => (HasUp(c) /\ UpNode(c) = ParentOf(c.node))
ConditionC ==
    \A c \in UnionSet :
        (/\ HasUp(c)
         /\ UpNode(c) = ParentOf(c.node)
         /\ \E u \in UnionSet : u.node = UpNode(c) /\ ~is_dir(u.before))
            => IndexOf(c.node) \subseteq IndexOf(UpNode(c))
ConditionD ==
    \A c \in UnionSet :
        ~is_empty(c.before) => (~HasUp(c) \/ IndexOf(UpNode(c)) \subseteq IndexOf(c.node))

\* C9: check_refluent returns true if and only if conditions (a)-(d) hold for
\* every command of the union.
C9_RefluentIffConditions ==
    refluent.called =>
        /\ ~refluent.raised
        /\ refluent.value <=> (ConditionA /\ ConditionB /\ ConditionC /\ ConditionD)

\* C10: check_refluent returns false whenever the union has a command whose
\* nearest ancestor command is on a node that is not its parent.
C10_FarAncestorNotRefluent ==
    (refluent.called /\ \E c \in UnionSet : HasUp(c) /\ UpNode(c) # ParentOf(c.node))
        => (~refluent.raised /\ ~refluent.value)

\* ------------------------------------------- claims on one command sequence
\* get_canonical_set returned a set for seq with the given value of checks.
Canonicalised(checks) ==
    /\ result.op = "get_canonical_set"
    /\ result.checks = checks
    /\ ~result.raised

\* C11: when get_canonical_set does not signal a Breaking error on a sequence,
\* the set it returns passes is_set_canonical, in whatever order the set is
\* iterated.
C11_CanonicalSetIsCanonical ==
    (result.op = "get_canonical_set" /\ ~result.raised
        /\ ~get_canonical_set(seq, TRUE).raised)
    => \A q \in from_set(as_set(result.out)) : is_set_canonical(q)

C11_Witness ==
    /\ Canonicalised(TRUE)
    /\ Len(result.out) >= 2
    /\ Len(seq) > Len(result.out)
    /\ is_set_canonical(result.out)

\* get_canonical_set was called on another ordering of the commands of seq.
CanonicalisedReordered == result.op = "get_canonical_set_reordered"

\* C12 as the specification states it: on any ordering of the commands of a
\* sequence that is not breaking, get_canonical_set returns the set it returns
\* on the sequence.
C12_OrderInvariance ==
    CanonicalisedReordered => ~result.raised /\ as_set(result.out) = as_set(result.prev)

\* C12: two orderings of the same commands on neither of which
\* get_canonical_set(checks=True) signals a Breaking error have the same
\* canonical set.
C12_OrderInvarianceOfNonBreaking ==
    (CanonicalisedReordered /\ ~get_canonical_set(result.arg, TRUE).raised)
    => ~result.raised /\ as_set(result.out) = as_set(result.prev)

C12_Witness ==
    /\ CanonicalisedReordered
    /\ ~get_canonical_set(result.arg, TRUE).raised
    /\ result.arg # seq
    /\ order_by_node(result.arg) # result.arg
    /\ Len(result.out) >= 2
    /\ as_set(result.out) = as_set(result.prev)

\* get_canonical_set was called on a sequence made of the set it had returned.
CanonicalisedAgain == result.op = "get_canonical_set_again"

\* C13: get_canonical_set is idempotent: on a sequence made, in any order, of
\* the set that get_canonical_set returned, it returns that set again.
C13_Idempotent ==
    CanonicalisedAgain => ~result.raised /\ as_set(result.out) = as_set(result.prev)

C13_Witness ==
    /\ CanonicalisedAgain
    /\ Len(result.prev) >= 2
    /\ Len(seq) > Len(result.prev)
    /\ result.arg # result.prev
    /\ as_set(result.out) = as_set(result.prev)

\* The positions of the commands of s on node n, and the first and the last
\* of them.
PositionsOn(s, n) == {i \in 1..Len(s) : s[i].node = n}
FirstOn(s, n) == CHOOSE i \in PositionsOn(s, n) : \A j \in PositionsOn(s, n) : i <= j
LastOn(s, n) == CHOOSE i \in PositionsOn(s, n) : \A j \in PositionsOn(s, n) : j <= i

\* <n, before of the first command on n, after of the last command on n>
RunCommand(s, n) == Command(n, s[FirstOn(s, n)].before, s[LastOn(s, n)].after)

\* The run commands of the nodes of s that are not null.
RunCommands(s) ==
    {c \in {RunCommand(s, s[i].node) : i \in 1..Len(s)} : c.before # c.after}

\* C14: get_canonical_set(s) holds, for each node n of s, exactly the command
\* <n, before of the first command on n, after of the last command on n>
\* unless that command is null, and nothing else; on
\* <d1|E|D>.<d1/d2|E|D>.<d1/d2/f3|E|F(f1)>.<d1/d2/f3|F(f1)|F(f2)> it returns
\* {<d1,E,D>, <d1/d2,E,D>, <d1/d2/f3,E,F(f2)>}.
C14_OneCommandPerNode ==
    (result.op = "get_canonical_set" /\ ~result.raised) =>
        /\ as_set(result.out) = RunCommands(seq)
        /\ Len(result.out) = Cardinality(RunCommands(seq))
        /\ seq = T1 => as_set(result.out) = {Command(<<1>>, E, D), Command(<<1, 2>>, E, D),
                                             Command(<<1, 2, 3>>, E, F(2))}

C14_Witness ==
    /\ Canonicalised(FALSE)
    /\ seq = T1
    /\ Len(result.out) = 3

\* Two successive commands on one node, in insertion order, do not chain.
Mismatch(s) ==
    \E i, j \in 1..Len(s) :
        /\ i < j
        /\ s[i].node = s[j].node
        /\ \A k \in (i + 1)..(j - 1) : s[k].node # s[i].node
        /\ s[i].after # s[j].before

\* The constructed set does not pass is_set_canonical.
ConstructedSetFails(s) == \E q \in orderings(RunCommands(s)) : ~is_set_canonical(q)

\* C15: get_canonical_set(checks=True) signals a Breaking error exactly when
\* two successive commands on one node of the node-ordered sequence do not
\* chain (the after of one differs from the before of the next) or the
\* constructed set fails is_set_canonical; then it returns no set, and on every
\* other sequence it returns the set.
C15_BreakingExactly ==
    (result.op = "get_canonical_set" /\ result.checks) =>
        /\ result.raised <=> (Mismatch(seq) \/ ConstructedSetFails(seq))
        /\ result.raised => result.out = <<>>
        /\ ~result.raised => as_set(result.out) = RunCommands(seq)

C15_Witness ==
    /\ result.op = "get_canonical_set"
    /\ result.checks
    /\ result.raised
    /\ ~Mismatch(seq)
    /\ ConstructedSetFails(seq)
    /\ Cardinality(RunCommands(seq)) >= 2

\* The positions of the commands of s on the strict ancestors of the node of
\* s[i], and the closest of them.
AncestorsIn(s, i) ==
    {j \in 1..Len(s) :
        /\ Len(s[j].node) < Len(s[i].node)
        /\ \A k \in 1..Len(s[j].node) : s[j].node[k] = s[i].node[k]}
ClosestIn(s, i) ==
    CHOOSE j \in AncestorsIn(s, i) :
        \A k \in AncestorsIn(s, i) : Len(s[k].node) <= Len(s[j].node)

\* I1: no two commands share a node and, for each command with a command on
\* an ancestor, the closest such command is on the parent and forms a
\* constructor pair with it or a destructor pair.
I1(s) ==
    /\ \A i, j \in 1..Len(s) : i # j => s[i].node # s[j].node
    /\ \A i \in 1..Len(s) :
          AncestorsIn(s, i) # {} =>
              /\ Len(s[ClosestIn(s, i)].node) = Len(s[i].node) - 1
              /\ \/ is_constructor_pair_with_next(s[ClosestIn(s, i)], s[i])
                 \/ is_destructor_pair_with_next(s[i], s[ClosestIn(s, i)])

\* C16: is_set_canonical returns true exactly on the sets that satisfy I1; it
\* returns false on {<d1/d2/f3,E,F(f1)>, <d1/d2/f3,F(f1),F(f2)>} and on
\* {<d1,E,D>, <d1/d2/f3,E,F(f1)>}.
C16_CanonicalIffI1 ==
    result.op = "is_set_canonical" =>
        /\ result.out <=> I1(seq)
        /\ seq \in {T5, T6} => ~result.out

C16_Witness ==
    /\ result.op = "is_set_canonical"
    /\ seq = T6
    /\ ~result.out

\* ------------------------------------------------ claims on from_set_union
\* C17: from_set_union returns a sequence that holds a command exactly when a
\* structurally equal command occurs in one of the inputs, and no two
\* structurally equal commands, on every input list, also on those with
\* several commands on one node.
C17_UnionOfSets ==
    result.op = "from_set_union" =>
        /\ ~result.raised
        /\ as_set(result.out) = UnionSet
        /\ Len(result.out) = Cardinality(UnionSet)

\* ------------------------------------------------------ claims on order_set
\* C18: on every canonical set c, order_set(c) holds the commands of c, every
\* constructor before every other command, the constructors in ascending
\* node order and the other commands in descending node order.
C18_OrderSetKeepsSet ==
    result.op = "order_set" =>
        /\ ~result.raised
        /\ as_set(result.out) = as_set(seq)
        /\ Len(result.out) = Len(seq)
        /\ \A i, j \in 1..Len(result.out) :
              i < j =>
                  /\ is_constructor(result.out[j]) => is_constructor(result.out[i])
                  /\ (is_constructor(result.out[i]) /\ is_constructor(result.out[j]))
                        => path_less(result.out[i].node, result.out[j].node)
                  /\ (~is_constructor(result.out[i]) /\ ~is_constructor(result.out[j]))
                        => path_less(result.out[j].node, result.out[i].node)

\* --------------------------------------------------- claims on the Session
\* C19: after a Session is built, the commands of all its sequences that have
\* equal paths reference the same Node object.
C19_OneNodePerPath ==
    /\ Len(node_of) = Len(concat_all(sets))
    /\ \A i, j \in 1..Len(node_of) :
          concat_all(sets)[i].node = concat_all(sets)[j].node => node_of[i] = node_of[j]

C19_Witness ==
    /\ Len(sets) = 2
    /\ \E i \in 1..Len(sets[1]) : \E j \in (Len(sets[1]) + 1)..Len(node_of) :
          /\ concat_all(sets)[i].node = concat_all(sets)[j].node
          /\ node_of[i] = node_of[j]
          /\ \E k \in (i + 1)..(j - 1) : node_of[k] # node_of[i]

\* ------------------------------------------------- claims on order_by_node
\* Path p is before path q in lexicographic order: at the first position
\* where they differ p has the smaller component, or p ends there.
LexLess(p, q) ==
    \E k \in 1..Len(q) :
        /\ k <= Len(p) + 1
        /\ \A m \in 1..(k - 1) : p[m] = q[m]
        /\ (k = Len(p) + 1 \/ p[k] < q[k])

\* out holds the commands of s in the order perm, which does not decrease in
\* node order and keeps the order of s among commands on equal nodes.
IsStableOrder(s, out, perm) ==
    /\ \A k, l \in 1..Len(s) : k # l => perm[k] # perm[l]
    /\ \A k \in 1..Len(s) : out[k] = s[perm[k]]
    /\ \A k, l \in 1..Len(s) :
          k < l =>
              \/ LexLess(s[perm[k]].node, s[perm[l]].node)
              \/ (s[perm[k]].node = s[perm[l]].node /\ perm[k] < perm[l])

\* C20: order_by_node returns a permutation of the commands that does not
\* decrease in lexicographic node order (a strict prefix of a path is less
\* than the path) and keeps the insertion order among commands on equal nodes.
C20_StableNodeOrder ==
    result.op = "order_by_node" =>
        /\ Len(result.out) = Len(seq)
        /\ \E perm \in [1..Len(seq) -> 1..Len(seq)] : IsStableOrder(seq, result.out, perm)
        /\ seq = T7 => result.out = T1

C20_Witness ==
    /\ result.op = "order_by_node"
    /\ seq = T7
    /\ result.out = T1

\* ------------------------------------------------- claims on the two checks
\* C21: check_refluent always returns a boolean and never raises, whatever
\* list it is given, also a list with an item that is neither a command set
\* nor a command sequence.
C21_ChecksNeverRaise ==
    /\ refluent.called => ~refluent.raised
    /\ result.op = "check_refluent" => ~result.raised

C23_UpIsLatestAncestor ==
    result.op = "add_up_pointers" =>
        /\ Len(result.out) = Len(result.arg)
        /\ \A i \in 1..Len(result.arg) :
              LET before_on_ancestor ==
                      {j \in 1..(i - 1) :
                          is_ancestor_of(result.arg[j].node, result.arg[i].node)}
              IN  /\ result.out[i] = 0 <=> before_on_ancestor = {}
                  /\ result.out[i] # 0 =>
                        /\ result.out[i] \in before_on_ancestor
                        /\ \A k \in before_on_ancestor : k <= result.out[i]

\* The up pointers were followed from a previous command on the same node to
\* a command on an ancestor.
C23_Witness ==
    /\ result.op = "add_up_pointers"
    /\ \E i \in 2..Len(result.arg) :
          /\ result.arg[i].node = result.arg[i - 1].node
          /\ result.out[i] # 0
          /\ result.out[i] < i - 1

\* C24: order_by_node_value returns, for every sequence, also one with
\* several commands on the same node, a permutation of the sequence sorted on
\* (node, before, after), values in the order of (kind, contents); equal
\* commands are then next to each other.
C24_SortedByNodeValue ==
    result.op = "order_by_node_value" =>
        /\ ~result.raised
        /\ Len(result.out) = Len(result.arg)
        /\ \A c \in AllCommands :
              Cardinality({i \in 1..Len(result.out) : result.out[i] = c})
                  = Cardinality({i \in 1..Len(result.arg) : result.arg[i] = c})
        /\ \A i \in 1..(Len(result.out) - 1) :
              LET c == result.out[i]
                  d == result.out[i + 1]
                  ValueLess(v, w) ==
                      \/ v.type_ < w.type_
                      \/ v.type_ = w.type_ /\ v.contents < w.contents
              IN  \/ c = d
                  \/ LexLess(c.node, d.node)
                  \/ c.node = d.node /\ ValueLess(c.before, d.before)
                  \/ c.node = d.node /\ c.before = d.before /\ ValueLess(c.after, d.after)

\* C25: in the loop of get_all_mergers (a fresh Session for every call, the
\* decisions returned passed to the next call) the assertion of make_decision
\* never fails, and when a call returns a merger make_decision has been
\* called as many times as the decisions list has entries.
C25_DecisionsConsumed ==
    result.op = "get_any_merger" =>
        /\ ~result.out.failed
        /\ (~result.raised /\ ~result.out.none) =>
              result.out.consumed = Len(result.out.decisions)

\* A call was given two decisions, removed the second when it incremented
\* the first, and read the one that was left.
C25_Witness ==
    /\ result.op = "get_any_merger"
    /\ ~result.raised
    /\ ~result.arg.none
    /\ Len(result.arg.decisions) = 2
    /\ ~result.out.none
    /\ Len(result.out.decisions) = 1
    /\ result.out.consumed = 1
    /\ result.out.decisions[1].current_decision = 1

\* The position of the last entry of a decisions list that is not at its last
\* option, 0 when every entry is.
LastOpen(v) ==
    IF \A i \in 1..Len(v) : v[i].current_decision = v[i].num_options - 1 THEN 0
    ELSE CHOOSE k \in 1..Len(v) :
             /\ v[k].current_decision # v[k].num_options - 1
             /\ \A i \in (k + 1)..Len(v) : v[i].current_decision = v[i].num_options - 1

\* C26: a call of get_any_merger given decisions first advances them to
\* their successor (the entries after the last one not at its last option
\* removed, that one incremented, the ones before it as they were); when
\* every entry is at its last option it returns (None, None) and no merger; a
\* call given None records every decision with current_decision 0.
C26_SuccessorVector ==
    (result.op = "get_any_merger" /\ ~result.raised) =>
        IF result.arg.none
        THEN /\ ~result.out.none
             /\ \A i \in 1..Len(result.out.decisions) :
                   result.out.decisions[i].current_decision = 0
        ELSE LET v == result.arg.decisions
                 k == LastOpen(result.arg.decisions)
             IN  IF k = 0 THEN result.out.none
                 ELSE /\ ~result.out.none
                      /\ Len(result.out.decisions) >= k
                      /\ \A i \in 1..(k - 1) : result.out.decisions[i] = v[i]
                      /\ result.out.decisions[k]
                            = [v[k] EXCEPT !.current_decision = @ + 1]

\* Two commands are in weak conflict: they are on the same node, or one is on
\* an ancestor of the node of the other and leaves no directory there while
\* the other leaves something on the descendant.
WeakConflict(c, d) ==
    \/ c.node = d.node
    \/ is_ancestor_of(c.node, d.node) /\ ~is_dir(c.after) /\ ~is_empty(d.after)
    \/ is_ancestor_of(d.node, c.node) /\ ~is_dir(d.after) /\ ~is_empty(c.after)

\* The mergers returned: the greedy one and those of the enumeration.
MergersReturned ==
    (IF greedy.called /\ ~greedy.raised THEN {greedy.merger} ELSE {})
        \cup {yielded[i] : i \in 1..Len(yielded)}

\* C27: for canonical, jointly refluent command sets no merger returned by
\* get_greedy_merger or by get_any_merger holds two distinct commands in weak
\* conflict.
C27_MergersConflictFree ==
    FoundRefluent =>
        \A merger \in MergersReturned : \A i, j \in 1..Len(merger) :
            merger[i] # merger[j] => ~WeakConflict(merger[i], merger[j])

\* The greedy merger and the first two mergers of the enumeration each leave
\* out a command of the union that is in weak conflict with a command they
\* keep.
C27_Witness ==
    /\ FoundRefluent
    /\ greedy.called
    /\ ~greedy.raised
    /\ Len(yielded) >= 2
    /\ \A merger \in {greedy.merger, yielded[1], yielded[2]} :
          \E c \in UnionSet : \E j \in 1..Len(merger) :
              /\ \A i \in 1..Len(merger) : merger[i] # c
              /\ WeakConflict(c, merger[j])

\* C28: every command of a merger returned by get_greedy_merger or by
\* get_any_merger is equal to a command of a command set given and is never
\* the command made up for the children in pass 2, the merger is in ascending
\* order of nodes, and the command sets given hold the same commands in the
\* same order after the call.
C28_MergerFromInputsInputsKept ==
    /\ \A merger \in MergersReturned :
          /\ \A i \in 1..Len(merger) :
                merger[i] \in UnionSet /\ merger[i].node # <<CHILDREN>>
          /\ \A i \in 1..(Len(merger) - 1) :
                LexLess(merger[i].node, merger[i + 1].node)
    /\ (greedy.called /\ ~greedy.raised) => greedy.inputs = sets
    /\ (result.op = "get_any_merger" /\ ~result.raised /\ ~result.out.none) =>
          result.out.inputs = sets

\* Both calls returned a merger of two commands or more for a list of two
\* command sets or more, the second after a decision for the children.
C28_Witness ==
    /\ Len(sets) >= 2
    /\ greedy.called
    /\ ~greedy.raised
    /\ Len(greedy.merger) >= 2
    /\ result.op = "get_any_merger"
    /\ ~result.raised
    /\ ~result.out.none
    /\ Len(result.out.merger) >= 2
    /\ \E i \in 1..Len(result.out.decisions) :
          result.out.decisions[i].current_decision = 1

\* C29: on fresh Sessions check_refluent returns the same boolean for a list
\* of canonical command sets and for every permutation of the list.
C29_RefluentOrderIndependent ==
    result.op = "check_refluent_permuted" =>
        /\ ~result.prev.raised
        /\ ~result.raised
        /\ result.out = result.prev.value

\* C30: is_set_canonical returns false for every command set that holds a
\* null command (one whose before and after values are equal).
C30_NullCommandNotCanonical ==
    (result.op = "is_set_canonical" /\ \E i \in 1..Len(seq) : is_null(seq[i]))
        => ~result.out
====
